---- MODULE Spec2Model ----
(***************************************************************************)
(* Model of ludwig/train.py (full_train, train, get_experiment_dir_name,   *)
(* get_file_names) and of ludwig/utils/math_utils.py (jaccard).            *)
(*                                                                         *)
(* Paths and names are strings; the file system is the pair (dirs, files)  *)
(* of the directories and the plain files that exist, each named by its    *)
(* path without trailing separator.  A relative path is relative to the    *)
(* working directory, which always exists and is written "".               *)
(***************************************************************************)
EXTENDS Integers, Sequences, FiniteSets, TLC

VARIABLES
    dirs,                   \* directories that exist on disk
    files,                  \* plain files that exist on disk
    pc,                     \* position of the current full_train invocation
    err,                    \* exception that ended the invocation, or None
    output_directory,       \* arguments of the current invocation
    experiment_name,
    model_name,
    model_load_path,
    resume_arg,             \* model_resume_path as the caller supplied it
    model_resume_path,      \* the local, after lines 140-148
    experiment_dir_name,    \* the run directory
    model,                  \* None, "loaded" or "built" (train, lines 304-320)
    resume,                 \* the resume flags model.train was called with
    session,                \* None, "open" or "closed"
    result,                 \* what model.train returned
    selection,              \* outcome of best-epoch selection
    nruns,                  \* invocations of full_train so far
    dirs_at_call,           \* dirs when the current invocation began
    files_at_call,          \* files when the current invocation began
    alloc,                  \* what get_experiment_dir_name returned to the
                            \* current invocation (NoAlloc: not called)
    prev_alloc,             \* its latest return to an earlier invocation
    calls,                  \* the calls the current invocation has made to
                            \* its collaborators, in order, each with
                            \* whether it returned (ok) or raised
    rewritten,              \* description files the current invocation
                            \* wrote when they existed
    sel_in,                 \* inputs of the stand-alone selection check
    sel_out,
    jac_in,                 \* inputs of the stand-alone jaccard check
    jac_out

\* the arguments and the locals set once, when full_train is entered
entry_vars == <<output_directory, experiment_name, model_name,
                model_load_path, resume_arg, model_resume_path,
                experiment_dir_name, nruns, dirs_at_call, files_at_call,
                alloc, prev_alloc>>

ft_vars == <<dirs, files, pc, err, entry_vars, model, resume, session,
             result, selection, calls, rewritten>>

check_vars == <<sel_in, sel_out, jac_in, jac_out>>

vars == <<ft_vars, check_vars>>

\* Python's None; no path or name of the model is this string.
None == "<None>"

----------------------------------------------------------------------------
(* Bounds of the model. *)

MaxRuns == 2        \* full_train invocations in one behaviour
MaxEpochs == 3      \* longest statistics series
MaxValue == 2       \* metric values are 0..MaxValue
MaxPaths == 2       \* paths in one jaccard input collection
MaxPathLen == 2     \* labels in one jaccard path
MaxLabel == 2       \* labels are 1..MaxLabel

----------------------------------------------------------------------------
(* os.path and os, as train.py uses them (POSIX). *)

CharAt(s, i) == SubSeq(s, i, i)

EndsWithSep(s) == Len(s) > 0 /\ CharAt(s, Len(s)) = "/"

isabs(s) == Len(s) > 0 /\ CharAt(s, 1) = "/"

\* os.path.join(a, b)
join(a, b) ==
    IF isabs(b) THEN b
    ELSE IF a = "" \/ EndsWithSep(a) THEN a \o b
    ELSE a \o "/" \o b

\* The name a path resolves to: trailing separators dropped.
RECURSIVE StripSep(_)
StripSep(p) ==
    IF Len(p) > 1 /\ EndsWithSep(p) THEN StripSep(SubSeq(p, 1, Len(p) - 1))
    ELSE p

\* Index of the last separator of p[1..i], 0 when there is none.
RECURSIVE LastSep(_, _)
LastSep(p, i) ==
    IF i = 0 THEN 0
    ELSE IF CharAt(p, i) = "/" THEN i
    ELSE LastSep(p, i - 1)

\* The directory that holds p; "" is the working directory.
Parent(p) ==
    LET q == StripSep(p)
        k == LastSep(q, Len(q))
    IN  IF k = 0 THEN ""
        ELSE IF k = 1 THEN "/"
        ELSE SubSeq(q, 1, k - 1)

\* os.path.isdir(p) on the file system whose directories are d
isdir(d, p) == p # "" /\ (StripSep(p) = "/" \/ StripSep(p) \in d)

\* os.path.exists(p)
exists(d, f, p) == isdir(d, p) \/ p \in f

\* The directory that holds p exists.
ParentIsDir(d, p) == Parent(p) = "" \/ isdir(d, Parent(p))

\* os.mkdir(p) succeeds (it raises OSError otherwise)
CanMkdir(d, f, p) ==
    /\ p # ""
    /\ ~isdir(d, p)
    /\ StripSep(p) \notin f
    /\ ParentIsDir(d, p)

\* the directories after a successful os.mkdir(p)
mkdir(d, p) == d \cup {StripSep(p)}

----------------------------------------------------------------------------
(* get_experiment_dir_name and get_file_names. *)

\* '{base}_{suffix}'.format(base=base, suffix=suffix)
Format(base, suffix) == base \o "_" \o ToString(suffix)

\* The loop run at most once (an `if` in place of the `while`).
FindSuffixOnce(d, base, suffix) ==
    IF isdir(d, Format(base, suffix)) THEN suffix + 1 ELSE suffix

\* The while loop of get_experiment_dir_name: the first suffix, from
\* `suffix` on, whose name is no directory.
RECURSIVE FindSuffix(_, _, _)
FindSuffix(d, base, suffix) ==
    IF isdir(d, Format(base, suffix)) THEN FindSuffix(d, base, suffix + 1)
    ELSE suffix

\* experiment_name + ('_' if model_name else '') + model_name
BaseName(exp, mn) == exp \o (IF mn # "" THEN "_" ELSE "") \o mn

\* get_experiment_dir_name looking for the base name, not the suffixed one.
get_experiment_dir_name_unsuffixed(d, f, out, exp, mn) ==
    LET results_dir == out
        make == ~isdir(d, results_dir)
        raised == make /\ ~CanMkdir(d, f, results_dir)
        d1 == IF make /\ ~raised THEN mkdir(d, results_dir) ELSE d
        base_dir_name == join(results_dir, BaseName(exp, mn))
        suffix == IF isdir(d1, base_dir_name) THEN 1 ELSE 0
    IN  IF raised
        THEN [raised |-> TRUE, dirs |-> d, name |-> None, suffix |-> 0]
        ELSE [raised |-> FALSE, dirs |-> d1,
              name |-> Format(base_dir_name, suffix), suffix |-> suffix]

\* get_experiment_dir_name on the file system (d, f): whether it raised, the
\* directories afterwards, and the name and suffix it returned.
get_experiment_dir_name(d, f, out, exp, mn) ==
    LET results_dir == out
        make == ~isdir(d, results_dir)
        raised == make /\ ~CanMkdir(d, f, results_dir)
        d1 == IF make /\ ~raised THEN mkdir(d, results_dir) ELSE d
        base_dir_name == join(results_dir, BaseName(exp, mn))
        suffix == FindSuffix(d1, base_dir_name, 0)
    IN  IF raised
        THEN [raised |-> TRUE, dirs |-> d, name |-> None, suffix |-> 0]
        ELSE [raised |-> FALSE, dirs |-> d1,
              name |-> Format(base_dir_name, suffix), suffix |-> suffix]

description_fn(edn) == join(edn, "description.json")

training_stats_fn(edn) == join(edn, "training_statistics.json")

model_dir(edn) == join(edn, "model")

\* get_file_names without the os.mkdir of line 408.
get_file_names_unmade(d, f, edn) == [raised |-> FALSE, dirs |-> d]

\* get_file_names on the file system (d, f): whether its os.mkdir raised and
\* the directories afterwards.
get_file_names(d, f, edn) ==
    LET make == ~exists(d, f, edn)
        raised == make /\ ~CanMkdir(d, f, edn)
    IN  [raised |-> raised,
         dirs |-> IF make /\ ~raised THEN mkdir(d, edn) ELSE d]

\* save_json(fn, data) can write fn: the directory that holds it exists and
\* fn names no directory.
CanWrite(d, fn) == ParentIsDir(d, fn) /\ ~isdir(d, fn)

----------------------------------------------------------------------------
(* Arguments of full_train and the file systems it may start on. *)

\* (output_directory, experiment_name, model_name)
RunNames ==
    { <<"r", "e", "run">>, <<"r", "e", "">>, <<"s/", "e", "run">> }

LoadPaths == {None, "m"}

ResumePaths == {None, "r/e_run_0"}

InitialFS ==
    { [dirs |-> {}, files |-> {}],
      [dirs |-> {}, files |-> {"s"}],
      [dirs |-> {"r"}, files |-> {"r/e_run_0"}],
      [dirs |-> {"r", "r/e_run_0"}, files |-> {}],
      [dirs |-> {"r", "r/e_run_1", "r/e_0"}, files |-> {}] }

----------------------------------------------------------------------------
(* Training statistics and best-epoch selection (full_train, 233-241). *)

\* model_definition['training']['validation_field'] and
\* ['validation_measure'] of the runs of the model
validation_field == "y"

validation_measure == "accuracy"

\* A statistics mapping field -> measure -> series, as a function whose
\* DOMAIN is the keys of the dict.
Stats(field, measure, series) ==
    [f \in {field} |-> [m \in {measure} |-> series]]

\* The scan keeping the last of the largest items (>= in place of >).
RECURSIVE MaxScanLast(_, _, _)
MaxScanLast(s, i, best) ==
    IF i > Len(s) THEN best
    ELSE MaxScanLast(s, i + 1, IF s[i] >= s[best] THEN i ELSE best)

\* max(enumerate(s), key=lambda pair: pair[1]) scanned from position i on
\* with `best` the position kept so far: max keeps the first of the largest
\* items, replacing what it holds only by a strictly larger one.
RECURSIVE MaxScan(_, _, _)
MaxScan(s, i, best) ==
    IF i > Len(s) THEN best
    ELSE MaxScan(s, i + 1, IF s[i] > s[best] THEN i ELSE best)

\* Selection reading the statistics with dict.get and an empty default in
\* place of the subscripts of lines 235-237.
SelectBestEpochDefaulted(vali, test, field, measure) ==
    LET fail(kind) == [raised |-> kind, epoch |-> -1, test |-> -1]
        series == IF field \in DOMAIN vali /\ measure \in DOMAIN vali[field]
                  THEN vali[field][measure] ELSE <<>>
    IN  IF series = <<>> THEN fail("ValueError")
        ELSE [raised |-> None,
              epoch |-> MaxScan(series, 1, 1) - 1,
              test |-> test[field][measure][MaxScan(series, 1, 1)]]

\* Lines 233-241 on the validation and test statistics: the exception
\* raised (None when none), the 0-based best epoch and the test value there
\* (-1 for both when it raised).
SelectBestEpoch(vali, test, field, measure) ==
    LET fail(kind) == [raised |-> kind, epoch |-> -1, test |-> -1]
    IN  IF field \notin DOMAIN vali THEN fail("KeyError")
        ELSE IF measure \notin DOMAIN vali[field] THEN fail("KeyError")
        ELSE IF vali[field][measure] = <<>> THEN fail("ValueError")
        ELSE LET epoch_max_vali_measure ==
                     MaxScan(vali[field][measure], 1, 1) - 1
             IN  IF field \notin DOMAIN test THEN fail("KeyError")
                 ELSE IF measure \notin DOMAIN test[field]
                 THEN fail("KeyError")
                 ELSE IF epoch_max_vali_measure >= Len(test[field][measure])
                 THEN fail("IndexError")
                 ELSE [raised |-> None,
                       epoch |-> epoch_max_vali_measure,
                       test |-> test[field][measure]
                                    [epoch_max_vali_measure + 1]]

\* What model.train may return to full_train: the validation and the test
\* statistics, series of equal length over the same field and measure.
TrainResults ==
    { [validation |-> Stats(k[1], k[2], k[3]), test |-> Stats(k[1], k[2], k[4])] :
        k \in { <<validation_field, validation_measure, <<1, 2, 2>>, <<0, 1, 2>>>>,
                <<validation_field, validation_measure, <<>>, <<>>>>,
                <<"z", validation_measure, <<1, 2>>, <<0, 1>>>> } }

----------------------------------------------------------------------------
(* full_train, one action per step between its calls to collaborators. *)

\* The locals `result` and the outcome of selection before they are set.
NoResult == [validation |-> <<>>, test |-> <<>>]

NoSelection == [raised |-> "NotRun", epoch |-> -1, test |-> -1]

\* No return of get_experiment_dir_name.
NoAlloc == [output_directory |-> None, experiment_name |-> None,
            model_name |-> None, name |-> None, suffix |-> -1,
            created |-> FALSE]

Running == pc \notin {"idle", "done", "failed"}

\* An exception leaves full_train: the invocation is over.
Raise(kind) == pc' = "failed" /\ err' = kind

\* The resume decision testing os.path.isdir in place of os.path.exists.
ResumeDecisionIsDir(d, f, res) ==
    IF res # None /\ ~isdir(d, res) THEN None ELSE res

\* The resume decision without the reset of line 148.
ResumeDecisionKept(d, f, res) == res

\* Lines 139-148: None when no resume path is given or the one given does
\* not exist (training then starts from scratch), the resume path otherwise.
ResumeDecision(d, f, res) ==
    IF res # None /\ ~exists(d, f, res) THEN None ELSE res

\* train loading the model only when training is not resumed.
TrainEntryExclusive(load, mrp) ==
    [model |-> IF load # None /\ mrp = None THEN "loaded" ELSE "built",
     resume |-> mrp # None]

\* train, lines 304-320, and the resume flag of line 217.
TrainEntry(load, mrp) ==
    [model |-> IF load # None THEN "loaded" ELSE "built",
     resume |-> mrp # None]

Call(op, arg, ok) == [op |-> op, arg |-> arg, ok |-> ok]

\* Lines 132-159: the resume decision, get_experiment_dir_name (on a fresh
\* start) and get_file_names.
FullTrainCall(out, exp, mn, load, res) ==
    /\ ~Running
    /\ nruns < MaxRuns
    /\ LET mrp == ResumeDecision(dirs, files, res)
           g == get_experiment_dir_name(dirs, files, out, exp, mn)
           edn == IF mrp = None THEN g.name ELSE mrp
           d1 == IF mrp = None THEN g.dirs ELSE dirs
           n == get_file_names(d1, files, edn)
       IN  /\ output_directory' = out
           /\ experiment_name' = exp
           /\ model_name' = mn
           /\ model_load_path' = load
           /\ resume_arg' = res
           /\ model_resume_path' = mrp
           /\ nruns' = nruns + 1
           /\ dirs_at_call' = dirs
           /\ files_at_call' = files
           /\ model' = None /\ resume' = {} /\ session' = None
           /\ result' = NoResult /\ selection' = NoSelection
           /\ calls' = <<>>
           /\ rewritten' = {}
           /\ prev_alloc' = IF alloc # NoAlloc THEN alloc ELSE prev_alloc
           /\ IF mrp = None /\ g.raised
              THEN /\ Raise("OSError")
                   /\ experiment_dir_name' = None
                   /\ alloc' = NoAlloc
                   /\ UNCHANGED dirs
              ELSE /\ experiment_dir_name' = edn
                   /\ dirs' = n.dirs
                   /\ alloc' =
                        IF mrp = None
                        THEN [output_directory |-> out,
                              experiment_name |-> exp,
                              model_name |-> mn,
                              name |-> g.name,
                              suffix |-> g.suffix,
                              created |-> isdir(n.dirs, g.name)]
                        ELSE NoAlloc
                   /\ IF n.raised THEN Raise("OSError")
                      ELSE pc' = "save_description" /\ err' = None
    /\ UNCHANGED files

\* SaveDescription saving the description a second time.
SaveDescriptionTwice(ok) ==
    /\ pc = "save_description"
    /\ LET fn == description_fn(experiment_dir_name)
           written == ok /\ CanWrite(dirs, fn)
           save == Call("save_json", fn, written)
       IN  /\ calls' = IF written THEN calls \o <<save, save>>
                        ELSE Append(calls, save)
           /\ IF written
              THEN /\ files' = files \cup {fn}
                   /\ rewritten' = rewritten \cup {fn}
                   /\ pc' = "preprocess"
                   /\ err' = err
              ELSE /\ Raise("OSError")
                   /\ UNCHANGED <<files, rewritten>>
    /\ UNCHANGED <<dirs, entry_vars, model, resume, session, result,
                   selection>>

\* SaveDescription going on to preprocessing when the write failed.
SaveDescriptionSwallowed(ok) ==
    /\ pc = "save_description"
    /\ LET fn == description_fn(experiment_dir_name)
           written == ok /\ CanWrite(dirs, fn)
       IN  /\ calls' = Append(calls, Call("save_json", fn, written))
           /\ files' = IF written THEN files \cup {fn} ELSE files
           /\ rewritten' = IF written /\ fn \in files
                           THEN rewritten \cup {fn} ELSE rewritten
           /\ pc' = "preprocess"
           /\ err' = err
    /\ UNCHANGED <<dirs, entry_vars, model, resume, session, result,
                   selection>>

\* Lines 161-175: save_json(description_fn, description); `ok` is whether
\* the device accepts the write.
SaveDescription(ok) ==
    /\ pc = "save_description"
    /\ LET fn == description_fn(experiment_dir_name)
           written == ok /\ CanWrite(dirs, fn)
       IN  /\ calls' = Append(calls, Call("save_json", fn, written))
           /\ IF written
              THEN /\ files' = files \cup {fn}
                   /\ rewritten' = IF fn \in files THEN rewritten \cup {fn}
                                   ELSE rewritten
                   /\ pc' = "preprocess"
                   /\ err' = err
              ELSE /\ Raise("OSError")
                   /\ UNCHANGED <<files, rewritten>>
    /\ UNCHANGED <<dirs, entry_vars, model, resume, session, result,
                   selection>>

\* Lines 186-207: preprocess_for_training and
\* update_model_definition_with_metadata; `ok` is whether they return.
Preprocess(ok) ==
    /\ pc = "preprocess"
    /\ calls' = Append(calls, Call("preprocess_for_training", None, ok))
    /\ IF ok THEN pc' = "train" /\ err' = err
       ELSE Raise("PreprocessingError")
    /\ UNCHANGED <<dirs, files, entry_vars, model, resume, session, result,
                   selection, rewritten>>

\* Lines 210-223 and train (304-334): load or build the model, then
\* model.train(..., resume=model_resume_path is not None).  `outcome` says
\* whether load_model_and_definition raises, model.train raises, or
\* model.train returns r.
Train(outcome, r) ==
    /\ pc = "train"
    /\ outcome = "load_raises" => model_load_path # None
    /\ LET e == TrainEntry(model_load_path, model_resume_path)
           build == IF e.model = "loaded"
                    THEN Call("load_model_and_definition", model_load_path,
                              outcome # "load_raises")
                    ELSE Call("Model", None, TRUE)
           flag == IF e.resume THEN "True" ELSE "False"
       IN  IF e.model = "loaded" /\ outcome = "load_raises"
           THEN /\ Raise("LoadError")
                /\ calls' = Append(calls, build)
                /\ UNCHANGED <<model, resume, session, result>>
           ELSE /\ model' = e.model
                /\ resume' = resume \cup {e.resume}
                /\ session' = "open"
                /\ calls' = calls \o
                       <<build, Call("model.train", flag,
                                     outcome # "train_raises")>>
                /\ IF outcome = "train_raises"
                   THEN Raise("TrainingFailure") /\ result' = result
                   ELSE pc' = "close_session" /\ err' = err /\ result' = r
    /\ UNCHANGED <<dirs, files, entry_vars, selection, rewritten>>

\* Lines 224-225: unpack the result, model.close_session().
CloseSession ==
    /\ pc = "close_session"
    /\ session' = "closed"
    /\ calls' = Append(calls, Call("close_session", None, TRUE))
    /\ pc' = "save_stats"
    /\ UNCHANGED <<dirs, files, err, entry_vars, model, resume, result,
                   selection, rewritten>>

\* SaveStatistics going on to selection when the write failed.
SaveStatisticsSwallowed(ok) ==
    /\ pc = "save_stats"
    /\ LET fn == training_stats_fn(experiment_dir_name)
           written == ok /\ CanWrite(dirs, fn)
       IN  /\ calls' = Append(calls, Call("save_json", fn, written))
           /\ files' = IF written THEN files \cup {fn} ELSE files
           /\ pc' = "select"
           /\ err' = err
    /\ UNCHANGED <<dirs, entry_vars, model, resume, session, result,
                   selection, rewritten>>

\* Lines 227-230: save_json(training_stats_fn, {...}).
SaveStatistics(ok) ==
    /\ pc = "save_stats"
    /\ LET fn == training_stats_fn(experiment_dir_name)
           written == ok /\ CanWrite(dirs, fn)
       IN  /\ calls' = Append(calls, Call("save_json", fn, written))
           /\ IF written
              THEN files' = files \cup {fn} /\ pc' = "select" /\ err' = err
              ELSE Raise("OSError") /\ UNCHANGED files
    /\ UNCHANGED <<dirs, entry_vars, model, resume, session, result,
                   selection, rewritten>>

\* Lines 232-255: best-epoch selection and the report.
SelectBest ==
    /\ pc = "select"
    /\ selection' = SelectBestEpoch(result.validation, result.test,
                                    validation_field, validation_measure)
    /\ calls' = Append(calls, Call("max", None, selection'.raised = None))
    /\ IF selection'.raised = None THEN pc' = "done" /\ err' = err
       ELSE Raise(selection'.raised)
    /\ UNCHANGED <<dirs, files, entry_vars, model, resume, session, result,
                   rewritten>>

----------------------------------------------------------------------------
(* jaccard (math_utils.py, 22-43).  A score is the pair <<n, d>> of the    *)
(* quotient n / d in lowest terms, so that equal quotients are equal.      *)

RECURSIVE GCD(_, _)
GCD(a, b) == IF b = 0 THEN a ELSE GCD(b, a % b)

\* n / d, for d > 0
Quotient(n, d) == <<n \div GCD(n, d), d \div GCD(n, d)>>

\* x > y on scores
Greater(x, y) == x[1] * y[2] > y[1] * x[2]

Min(a, b) == IF a < b THEN a ELSE b

\* Lines 29-36: the loop over i in range(min(size_set_1, size_set_2)),
\* comparing path1[-(i + 1)] with path2[-(i + 1)] and breaking at the first
\* difference.
RECURSIVE Intersection(_, _, _)
Intersection(path1, path2, i) ==
    IF i >= Min(Len(path1), Len(path2)) THEN i
    ELSE IF path1[Len(path1) - i] = path2[Len(path2) - i]
         THEN Intersection(path1, path2, i + 1)
         ELSE i

\* The two for loops from the pair (i, j) on, max_jaccard_score being
\* `best`: the score returned, or the ZeroDivisionError of line 38.
RECURSIVE JaccardLoop(_, _, _, _, _)
JaccardLoop(sorted_list_1, sorted_list_2, i, j, best) ==
    IF i > Len(sorted_list_1) THEN [raised |-> None, score |-> best]
    ELSE IF j > Len(sorted_list_2)
    THEN JaccardLoop(sorted_list_1, sorted_list_2, i + 1, 1, best)
    ELSE LET path1 == sorted_list_1[i]
             path2 == sorted_list_2[j]
             size_set_1 == Len(path1)
             size_set_2 == Len(path2)
             intersection == Intersection(path1, path2, 0)
             union == size_set_1 + size_set_2 - intersection
             jaccard_score == Quotient(intersection, union)
         IN  IF union = 0
             THEN [raised |-> "ZeroDivisionError", score |-> best]
             ELSE JaccardLoop(sorted_list_1, sorted_list_2, i, j + 1,
                      IF Greater(jaccard_score, best) THEN jaccard_score
                      ELSE best)

jaccard(sorted_list_1, sorted_list_2) ==
    JaccardLoop(sorted_list_1, sorted_list_2, 1, 1, <<0, 1>>)

\* Sequences over S of length at most n.
SeqsUpTo(S, n) == UNION { [1..k -> S] : k \in 0..n }

\* Paths of at most len labels out of 1..labels.
Paths(labels, len) == SeqsUpTo(1..labels, len)

\* Collections of at most n such paths.
PathLists(labels, len, n) == SeqsUpTo(Paths(labels, len), n)

NoScore == [raised |-> "NotRun", score |-> <<0, 1>>]

\* A caller applies jaccard to the two collections of jac_in.
JaccardCall ==
    /\ jac_in # <<>>
    /\ jac_out = NoScore
    /\ jac_out' = jaccard(jac_in[1], jac_in[2])
    /\ UNCHANGED <<jac_in, sel_in, sel_out>>
    /\ UNCHANGED ft_vars

\* The statistics a finished training hands to selection: a validation
\* series v and a test series t of one length, under one field and one
\* measure.  Every pair of series comes under the validation field and
\* measure; under another field or measure the test series is the
\* validation one.
SelectionKeys ==
    { <<validation_field, validation_measure>>, <<"z", validation_measure>>,
      <<validation_field, "loss">>, <<"z", "loss">> }

SelectionInput(key, v, t) ==
    [field |-> key[1], measure |-> key[2], validation |-> v, test |-> t]

\* Best-epoch selection applied to the statistics of sel_in.
SelectCall ==
    /\ sel_in # <<>>
    /\ sel_out = NoSelection
    /\ sel_out' = SelectBestEpoch(
                      Stats(sel_in.field, sel_in.measure, sel_in.validation),
                      Stats(sel_in.field, sel_in.measure, sel_in.test),
                      validation_field, validation_measure)
    /\ UNCHANGED <<sel_in, jac_in, jac_out>>
    /\ UNCHANGED ft_vars

----------------------------------------------------------------------------
(* The orchestration: invocations of full_train, one after another. *)

Idle ==
    /\ pc = "idle" /\ err = None
    /\ output_directory = None /\ experiment_name = None /\ model_name = None
    /\ model_load_path = None /\ resume_arg = None /\ model_resume_path = None
    /\ experiment_dir_name = None
    /\ model = None /\ resume = {} /\ session = None
    /\ result = NoResult /\ selection = NoSelection
    /\ nruns = 0 /\ dirs_at_call = {} /\ files_at_call = {}
    /\ alloc = NoAlloc /\ prev_alloc = NoAlloc
    /\ calls = <<>> /\ rewritten = {}

NoChecks ==
    /\ sel_in = <<>> /\ sel_out = NoSelection
    /\ jac_in = <<>> /\ jac_out = NoScore

Init ==
    /\ \E fs \in InitialFS : dirs = fs.dirs /\ files = fs.files
    /\ Idle
    /\ NoChecks

Next ==
    \/ /\ \E n \in RunNames, load \in LoadPaths, res \in ResumePaths :
               FullTrainCall(n[1], n[2], n[3], load, res)
       /\ UNCHANGED check_vars
    \/ /\ \E ok \in BOOLEAN : SaveDescription(ok)
       /\ UNCHANGED check_vars
    \/ /\ \E ok \in BOOLEAN : Preprocess(ok)
       /\ UNCHANGED check_vars
    \/ /\ \E outcome \in {"load_raises", "train_raises", "returns"},
             r \in TrainResults : Train(outcome, r)
       /\ UNCHANGED check_vars
    \/ /\ CloseSession
       /\ UNCHANGED check_vars
    \/ /\ \E ok \in BOOLEAN : SaveStatistics(ok)
       /\ UNCHANGED check_vars
    \/ /\ SelectBest
       /\ UNCHANGED check_vars

Spec == Init /\ [][Next]_vars

\* jaccard alone, on every pair of collections within the bounds.
InitJaccard ==
    /\ dirs = {} /\ files = {}
    /\ Idle
    /\ sel_in = <<>> /\ sel_out = NoSelection
    /\ \E a \in PathLists(MaxLabel, MaxPathLen, MaxPaths),
          b \in PathLists(MaxLabel, MaxPathLen, MaxPaths) : jac_in = <<a, b>>
    /\ jac_out = NoScore

NextJaccard == JaccardCall

SpecJaccard == InitJaccard /\ [][NextJaccard]_vars

\* Best-epoch selection alone, on every statistics within the bounds.
InitSelect ==
    /\ dirs = {} /\ files = {}
    /\ Idle
    /\ \E k \in 0..MaxEpochs :
       \E v \in [1..k -> 0..MaxValue], t \in [1..k -> 0..MaxValue],
          key \in SelectionKeys :
           /\ key = <<validation_field, validation_measure>> \/ t = v
           /\ sel_in = SelectionInput(key, v, t)
    /\ sel_out = NoSelection
    /\ jac_in = <<>> /\ jac_out = NoScore

NextSelect == SelectCall

SpecSelect == InitSelect /\ [][NextSelect]_vars

----------------------------------------------------------------------------
(* Properties of directory-name allocation. *)

\* The invocation under way (or just ended) called get_experiment_dir_name
\* and it returned.
Allocated == alloc # NoAlloc

\* The suffixes an allocation can return: with n directories on disk, one of
\* the first n + 1 names is free.
Suffixes == 0..Cardinality(dirs_at_call)

\* C1 as stated: the name returned is
\* <output_directory>/<experiment_name>_<model_name>_<suffix>, for every
\* output directory, experiment name and model name, with the smallest
\* suffix whose name is no directory; it never names an existing directory.
C1_AsStated ==
    Allocated =>
        LET Name(k) == alloc.output_directory \o "/" \o alloc.experiment_name
                           \o "_" \o alloc.model_name \o "_" \o ToString(k)
        IN  \E n \in Suffixes :
                /\ alloc.name = Name(n)
                /\ ~isdir(dirs_at_call, Name(n))
                /\ \A k \in 0..(n - 1) : isdir(dirs_at_call, Name(k))

\* The base name the source builds: os.path.join of the output directory
\* and experiment_name + '_' + model_name, the underscore left out when the
\* model name is empty.
C1_Base ==
    LET stem == IF alloc.model_name = "" THEN alloc.experiment_name
                ELSE alloc.experiment_name \o "_" \o alloc.model_name
    IN  IF isabs(stem) THEN stem
        ELSE IF EndsWithSep(alloc.output_directory)
        THEN alloc.output_directory \o stem
        ELSE alloc.output_directory \o "/" \o stem

\* C1, amended: whenever get_experiment_dir_name returns, it returns
\* <base>_<suffix>, base being os.path.join(output_directory,
\* experiment_name + '_' + model_name) with the underscore omitted for an
\* empty model name, and suffix the smallest non-negative integer whose name
\* is no directory; the name returned is no existing directory.
C1_SmallestFreeSuffix ==
    Allocated =>
        LET Name(k) == C1_Base \o "_" \o ToString(k)
        IN  /\ \E n \in Suffixes :
                /\ alloc.name = Name(n)
                /\ alloc.suffix = n
                /\ \A k \in 0..(n - 1) : isdir(dirs_at_call, Name(k))
            /\ alloc.name \notin dirs_at_call
            /\ ~isdir(dirs_at_call, alloc.name)

\* An allocation that had to pass two earlier runs of the same names.
C1_Witness == Allocated /\ alloc.name = "r/e_run_2"

\* C2: two allocations in a row with the same output directory, experiment
\* name and model name, the first one's directory created in between, return
\* distinct names that differ only in the suffix, the second suffix greater.
C2_SecondSuffixGreater ==
    ( /\ Allocated
      /\ prev_alloc # NoAlloc
      /\ prev_alloc.created
      /\ prev_alloc.output_directory = alloc.output_directory
      /\ prev_alloc.experiment_name = alloc.experiment_name
      /\ prev_alloc.model_name = alloc.model_name )
    => LET stem == SubSeq(prev_alloc.name, 1,
                       Len(prev_alloc.name) - Len(ToString(prev_alloc.suffix)))
       IN  /\ alloc.name # prev_alloc.name
           /\ alloc.suffix > prev_alloc.suffix
           /\ prev_alloc.name = stem \o ToString(prev_alloc.suffix)
           /\ alloc.name = stem \o ToString(alloc.suffix)

\* Two allocations in a row for the same names, on a disk where the second
\* had a directory of an earlier run to pass as well.
C2_Witness ==
    /\ Allocated
    /\ prev_alloc.created
    /\ prev_alloc.output_directory = alloc.output_directory
    /\ prev_alloc.experiment_name = alloc.experiment_name
    /\ prev_alloc.model_name = alloc.model_name
    /\ prev_alloc.suffix = 0
    /\ alloc.suffix = 2

----------------------------------------------------------------------------
(* Properties of the entry into full_train. *)

\* full_train has been entered at least once; the state describes its latest
\* invocation.
Entered == nruns > 0

\* A resume path was supplied and existed when the invocation began.
ResumeExisted ==
    resume_arg # None /\ exists(dirs_at_call, files_at_call, resume_arg)

\* A resume path was supplied and did not exist when the invocation began.
ResumeMissing ==
    resume_arg # None /\ ~exists(dirs_at_call, files_at_call, resume_arg)

\* The flags of the model.train calls of the invocation, from its calls.
TrainFlags == { calls[i].arg : i \in { k \in DOMAIN calls :
                                          calls[k].op = "model.train" } }

\* C3: with a resume path that exists, the run directory is that path,
\* get_experiment_dir_name is not called, no directory is created, and
\* model.train is called with resume = True.
C3_ResumeInPlace ==
    (Entered /\ ResumeExisted) =>
        /\ experiment_dir_name = resume_arg
        /\ ~Allocated
        /\ dirs = dirs_at_call
        /\ resume \subseteq {TRUE}
        /\ TrainFlags \subseteq {"True"}
        /\ session # None => resume = {TRUE}

\* The second invocation resumes the directory the first one allocated, and
\* has called model.train.
C3_Witness ==
    /\ nruns = 2
    /\ ResumeExisted
    /\ prev_alloc.name = resume_arg
    /\ prev_alloc.created
    /\ resume = {TRUE}
    /\ TrainFlags = {"True"}

\* C4 as stated: with a resume path that does not exist no error is raised
\* for it, the run directory is one get_experiment_dir_name allocates, not the
\* resume path supplied, and model.train is called with resume = False.
C4_AsStated ==
    (Entered /\ ResumeMissing /\ Allocated) =>
        /\ experiment_dir_name = alloc.name
        /\ experiment_dir_name # resume_arg
        /\ resume \subseteq {FALSE}

\* C4, amended: with a resume path that does not exist the invocation goes on
\* as a fresh start; the only error it can raise on entry is the OSError of
\* an os.mkdir that fails; the run directory is the name
\* get_experiment_dir_name returns, which is no directory yet (and which is
\* the resume path itself when that is the first free name); model.train is
\* called with resume = False.
C4_FreshOnMissingResume ==
    (Entered /\ ResumeMissing) =>
        /\ model_resume_path = None
        /\ IF Allocated
           THEN /\ experiment_dir_name = alloc.name
                /\ ~isdir(dirs_at_call, alloc.name)
                /\ (pc = "failed" /\ calls = <<>>) =>
                       /\ err = "OSError"
                       /\ ~exists(dirs_at_call, files_at_call, alloc.name)
           ELSE /\ pc = "failed" /\ err = "OSError" /\ calls = <<>>
                /\ ~isdir(dirs_at_call, output_directory)
                /\ ~CanMkdir(dirs_at_call, files_at_call, output_directory)
        /\ resume \subseteq {FALSE}
        /\ TrainFlags \subseteq {"False"}
        /\ session # None => resume = {FALSE}

\* A missing resume path, a run directory allocated under another name, and
\* model.train called.
C4_Witness ==
    /\ Entered /\ ResumeMissing /\ Allocated
    /\ experiment_dir_name # resume_arg
    /\ resume = {FALSE}
    /\ TrainFlags = {"False"}

\* The three entry states of the training driver, as the invocation shows
\* them once model.train has been called.
LoadPretrained == model = "loaded"

ResumeState ==
    /\ resume = {TRUE}
    /\ experiment_dir_name = resume_arg
    /\ ~Allocated

FreshStart == model = "built" /\ resume = {FALSE} /\ Allocated

\* C7 as stated: the three entry states exclude one another, and FreshStart
\* applies exactly when neither a load path nor an existing resume path is
\* supplied.
C7_AsStated ==
    session # None =>
        /\ ~(LoadPretrained /\ ResumeState)
        /\ ~(FreshStart /\ LoadPretrained)
        /\ ~(FreshStart /\ ResumeState)
        /\ FreshStart <=> (model_load_path = None /\ ~ResumeExisted)

\* C7, amended: FreshStart excludes the other two states and applies exactly
\* when neither a load path nor an existing resume path is supplied;
\* LoadPretrained applies exactly when a load path is supplied and Resume
\* exactly when an existing resume path is supplied, each whatever the other
\* argument is, so an invocation given both restores the model from the load
\* path and resumes the existing directory with resume = True.
C7_EntryStates ==
    session # None =>
        /\ ~(FreshStart /\ LoadPretrained)
        /\ ~(FreshStart /\ ResumeState)
        /\ FreshStart <=> (model_load_path = None /\ ~ResumeExisted)
        /\ LoadPretrained <=> model_load_path # None
        /\ ResumeState <=> ResumeExisted
        /\ FreshStart \/ LoadPretrained \/ ResumeState

\* An invocation in both states: model loaded, existing directory resumed.
C7_Witness == session # None /\ LoadPretrained /\ ResumeState

\* The successful writes of the run directory's description file among the
\* calls of the invocation.
DescriptionSaves ==
    { i \in DOMAIN calls :
        /\ calls[i].op = "save_json"
        /\ calls[i].arg = description_fn(experiment_dir_name)
        /\ calls[i].ok }

\* C8 as stated: over any sequence of invocations, no description.json that
\* exists is written again.
C8_AsStated == rewritten = {}

\* C8, amended: an invocation writes the description file of its run
\* directory at most once, as its first call, and a fresh start never writes
\* over a description.json that exists; an invocation that resumes a run
\* directory holding a description.json writes that file again.
C8_WrittenOncePerInvocation ==
    (Entered /\ experiment_dir_name # None) =>
        /\ Cardinality(DescriptionSaves) <= 1
        /\ DescriptionSaves \subseteq {1}
        /\ Allocated => description_fn(experiment_dir_name) \notin files_at_call
        /\ ( /\ DescriptionSaves # {}
             /\ description_fn(experiment_dir_name) \in files_at_call )
           => /\ model_resume_path # None
              /\ description_fn(experiment_dir_name) \in rewritten

\* A resumed run has written over the description of the run it resumes.
C8_Witness ==
    /\ pc = "done"
    /\ DescriptionSaves = {1}
    /\ description_fn(experiment_dir_name) \in files_at_call
    /\ description_fn(experiment_dir_name) \in rewritten

\* The calls that preprocess or train.
WorkCalls ==
    {"preprocess_for_training", "load_model_and_definition", "Model",
     "model.train"}

\* C10: preprocessing and training come only after the description file of
\* the run directory has been written, and only if that write succeeded; a
\* run whose training fails has its description file on disk.
C10_DescriptionFirst ==
    /\ \A i \in DOMAIN calls :
           calls[i].op \in WorkCalls =>
               /\ i > 1
               /\ calls[1] = Call("save_json",
                                  description_fn(experiment_dir_name), TRUE)
               /\ description_fn(experiment_dir_name) \in files
    /\ (pc \in {"preprocess", "train"} \/ model # None \/ session # None) =>
           /\ DescriptionSaves = {1}
           /\ description_fn(experiment_dir_name) \in files
    /\ (pc = "failed" /\ err \in {"TrainingFailure", "LoadError"}) =>
           description_fn(experiment_dir_name) \in files

\* A run whose training failed.
C10_Witness ==
    /\ pc = "failed"
    /\ err = "TrainingFailure"
    /\ description_fn(experiment_dir_name) \in files

\* The calls of the invocation that start the model's training.
TrainCalls == { i \in DOMAIN calls : calls[i].op = "model.train" }

\* full_train has ended, by returning or by an exception.
Ended == pc \in {"done", "failed"}

\* C11: in every run in which the model's training is started,
\* close_session is called on the model before full_train ends, after
\* model.train and the extraction of the statistics.
C11_AsStated ==
    (Ended /\ TrainCalls # {}) =>
        /\ session = "closed"
        /\ \A i \in TrainCalls :
               \E j \in DOMAIN calls :
                   j > i /\ calls[j].op = "close_session"

\* The exceptions of best-epoch selection.
SelectionErrors == {"KeyError", "ValueError", "IndexError"}

\* The writes of the statistics file attempted by the invocation.
StatisticsSaves ==
    { i \in DOMAIN calls :
        /\ calls[i].op = "save_json"
        /\ calls[i].arg = training_stats_fn(experiment_dir_name) }

\* C12: best-epoch selection comes only directly after a successful write of
\* the statistics file of the run; a failed statistics write ends full_train
\* with no selection made; a selection failure leaves the statistics of the
\* run on disk.
C12_StatisticsBeforeSelection ==
    /\ \A i \in DOMAIN calls :
           calls[i].op = "max" =>
               /\ i > 1
               /\ calls[i - 1] =
                      Call("save_json",
                           training_stats_fn(experiment_dir_name), TRUE)
               /\ training_stats_fn(experiment_dir_name) \in files
    /\ (pc = "select" \/ selection # NoSelection) =>
           /\ \E i \in StatisticsSaves : calls[i].ok
           /\ training_stats_fn(experiment_dir_name) \in files
    /\ (\E i \in StatisticsSaves : ~calls[i].ok) =>
           /\ pc = "failed"
           /\ err = "OSError"
           /\ selection = NoSelection
           /\ \A i \in DOMAIN calls : calls[i].op # "max"
    /\ (pc = "failed" /\ err \in SelectionErrors) =>
           /\ selection.raised = err
           /\ training_stats_fn(experiment_dir_name) \in files

\* A run whose selection failed on statistics it had written.
C12_Witness ==
    /\ pc = "failed"
    /\ err \in SelectionErrors
    /\ selection.raised = err
    /\ \E i \in StatisticsSaves : calls[i].ok
    /\ training_stats_fn(experiment_dir_name) \in files

\* The step is an invocation of full_train.
Invoked == nruns' # nruns

\* The invocation starts fresh: no resume path, or one that does not exist.
StartsFresh == resume_arg' = None \/ ~exists(dirs, files, resume_arg')

\* The run directories the step creates: the new directories other than the
\* output directory.
RunDirsCreated == (dirs' \ dirs) \ {StripSep(output_directory')}

\* The step keeps every directory and every file, and writes only the
\* description and the statistics file of the run directory.
KeepsArtifacts ==
    /\ dirs \subseteq dirs'
    /\ files \subseteq files'
    /\ (files' \ files) \subseteq
           { experiment_dir_name \o "/description.json",
             experiment_dir_name \o "/training_statistics.json" }
    /\ (Invoked /\ experiment_dir_name' # None) =>
           /\ description_fn(experiment_dir_name') =
                  experiment_dir_name' \o "/description.json"
           /\ training_stats_fn(experiment_dir_name') =
                  experiment_dir_name' \o "/training_statistics.json"
           /\ model_dir(experiment_dir_name') =
                  experiment_dir_name' \o "/model"

----------------------------------------------------------------------------
(* Properties of best-epoch selection, on SpecSelect. *)

\* Selection has been applied to sel_in.
Selected == sel_in # <<>> /\ sel_out.raised # "NotRun"

\* The statistics hold the validation field and, under it, the measure.
Present ==
    sel_in.field = validation_field /\ sel_in.measure = validation_measure

\* C5: on a non-empty validation series selection raises nothing and picks
\* the lowest index of the maximum; the test performance it reports is the
\* test series' value at that index.
C5_FirstMaximum ==
    (Selected /\ Present /\ sel_in.validation # <<>>) =>
        LET v == sel_in.validation
            e == sel_out.epoch + 1
        IN  /\ sel_out.raised = None
            /\ e \in DOMAIN v
            /\ \A i \in DOMAIN v : v[i] <= v[e]
            /\ \A i \in 1..(e - 1) : v[i] < v[e]
            /\ sel_out.test = sel_in.test[e]

\* A maximum that occurs twice, the first occurrence not at index 0.
C5_Witness ==
    /\ Selected /\ Present
    /\ sel_in.validation = <<1, 2, 2>>
    /\ sel_in.test = <<0, 1, 2>>
    /\ sel_out.epoch = 1
    /\ sel_out.test = 1

\* C6 as stated: an absent field or measure raises a LookupError (KeyError
\* and IndexError are its kinds), an empty validation series an IndexError.
C6_AsStated ==
    Selected =>
        /\ ~Present => sel_out.raised \in {"LookupError", "KeyError", "IndexError"}
        /\ (Present /\ sel_in.validation = <<>>) => sel_out.raised = "IndexError"

\* C6, amended: an absent field or measure raises KeyError, a LookupError;
\* an empty validation series raises ValueError (max() of an empty
\* sequence), which is no IndexError and no LookupError.
C6_SelectionErrors ==
    Selected =>
        /\ ~Present => sel_out.raised = "KeyError"
        /\ (Present /\ sel_in.validation = <<>>) => sel_out.raised = "ValueError"
        /\ sel_out.raised \in {None, "KeyError", "ValueError"}

\* Selection on an empty series of the validation field and measure.
C6_Witness ==
    /\ Selected /\ Present
    /\ sel_in.validation = <<>>
    /\ sel_out.raised = "ValueError"

----------------------------------------------------------------------------
(* Properties of jaccard, on SpecJaccard. *)

\* jaccard has been applied to jac_in.
Scored == jac_in # <<>> /\ jac_out.raised # "NotRun"

Returns(score) == [raised |-> None, score |-> score]

\* C9: jaccard gives the same result with its collections swapped, returns 0
\* when either is empty, and returns 1 when a path of one is a non-empty path
\* of the other.
C9_AsStated ==
    Scored =>
        /\ jaccard(jac_in[2], jac_in[1]) = jac_out
        /\ (jac_in[1] = <<>> \/ jac_in[2] = <<>>) => jac_out = Returns(<<0, 1>>)
        /\ ( \E i \in DOMAIN jac_in[1], j \in DOMAIN jac_in[2] :
                 jac_in[1][i] = jac_in[2][j] /\ jac_in[1][i] # <<>> )
           => jac_out = Returns(<<1, 1>>)

====
